---- MODULE Spec2Model ----
(***************************************************************************)
(* Model of StepperMotortutorial/AzureMotorTest/main.c: a ULN2003 stepper  *)
(* driver on the MT3620.  Two periodic timers (button poll, motor step)    *)
(* are multiplexed on one epoll wait; their handlers share isMotorTurning  *)
(* and stepNumber; terminationRequired ends the run loop.                  *)
(*                                                                         *)
(* Granularity: one action per call that is visible outside the process.   *)
(* ButtonTimerEventHandler makes one GPIO write and is one action.         *)
(* StepperMotorEventHandler makes four GPIO writes; each write is a step   *)
(* of its own, so the line states between the writes are states of the     *)
(* model.  GPIO_SetValue may fail (it returns -1 and leaves the line as it *)
(* was); main.c never looks at its result.                                 *)
(***************************************************************************)
EXTENDS Integers, Sequences, FiniteSets, TLC

VARIABLES
    pc,                  \* position of main(): "start", "init", "loop", "wait", "stepper", "close", "return", "exit"
    terminationRequired, \* main.c:31
    isMotorTurning,      \* main.c:34
    stepNumber,          \* main.c:35
    fd,                  \* main.c:23-27, 37-40: the nine descriptors, -1 when never opened
    gpio,                \* level of each output pin of the board
    stepperPos,          \* GPIO_SetValue calls already made by the running StepperMotorEventHandler
    closed,              \* descriptors handed to close(), in order, each with the result
    exitStatus,          \* value returned by main(), -1 while it runs
    inv,                 \* history: the current or last handler invocation
    run                  \* history: the current run of step ticks with isMotorTurning true

vars == <<pc, terminationRequired, isMotorTurning, stepNumber, fd, gpio,
          stepperPos, closed, exitStatus, inv, run>>

----------------------------------------------------------------------------
(* Bounds *)

\* Longest run of step ticks that the history variable run records before it
\* starts a new run at the current stepNumber.
MaxRun == 9

\* Most close() calls that fail in one ClosePeripheralsAndHandlers.
MaxCloseFailures == 2

----------------------------------------------------------------------------
(* Values and names of main.c *)

GPIO_Value_High == "High"
GPIO_Value_Low == "Low"
Unopened == "Unopened"

AVNET_MT3620_SK_USER_LED_GREEN == "USER_LED_GREEN"
AVNET_MT3620_SK_GPIO31 == "GPIO31"
AVNET_MT3620_SK_GPIO32 == "GPIO32"
AVNET_MT3620_SK_GPIO33 == "GPIO33"
AVNET_MT3620_SK_GPIO34 == "GPIO34"

OutputPins == {AVNET_MT3620_SK_USER_LED_GREEN, AVNET_MT3620_SK_GPIO31,
               AVNET_MT3620_SK_GPIO32, AVNET_MT3620_SK_GPIO33,
               AVNET_MT3620_SK_GPIO34}

DriverLines == {"IN1", "IN2", "IN3", "IN4"}

\* The pin each output descriptor is opened on by InitPeripheralsAndHandlers.
PinOf(h) ==
    CASE h = "greenLEDFd" -> AVNET_MT3620_SK_USER_LED_GREEN
      [] h = "IN4" -> AVNET_MT3620_SK_GPIO34
      [] h = "IN3" -> AVNET_MT3620_SK_GPIO31
      [] h = "IN2" -> AVNET_MT3620_SK_GPIO33
      [] h = "IN1" -> AVNET_MT3620_SK_GPIO32

\* Order of the acquisitions in InitPeripheralsAndHandlers.
AcquireOrder ==
    <<"epollFd", "button_A_GpioFd", "buttonPollTimerFd", "greenLEDFd",
      "IN4", "IN3", "IN2", "IN1", "stepperMotorTimerFd">>

\* Mutant of CloseOrder: the call for the step timer is missing.
CloseOrderForgetsTimer ==
    <<"epollFd", "buttonPollTimerFd", "greenLEDFd", "button_A_GpioFd",
      "IN1", "IN2", "IN3", "IN4">>

\* Mutant of CloseOrder: the calls in the reverse of the acquisitions.
CloseOrderReversed ==
    <<"stepperMotorTimerFd", "IN1", "IN2", "IN3", "IN4", "greenLEDFd",
      "buttonPollTimerFd", "button_A_GpioFd", "epollFd">>

\* Order of the CloseFdAndPrintError calls in ClosePeripheralsAndHandlers.
CloseOrder ==
    <<"epollFd", "buttonPollTimerFd", "greenLEDFd", "button_A_GpioFd",
      "stepperMotorTimerFd", "IN1", "IN2", "IN3", "IN4">>

Handles == {AcquireOrder[i] : i \in 1..Len(AcquireOrder)}
OutputHandles == DriverLines \cup {"greenLEDFd"}

----------------------------------------------------------------------------
(* Views of the state *)

Line(h) == gpio[PinOf(h)]
Lines == [h \in DriverLines |-> Line(h)]
Active(ls) == {h \in DriverLines : ls[h] = GPIO_Value_Low}

\* What the handlers share and the indicator line, as a handler finds them.
Entry ==
    [turning |-> isMotorTurning, step |-> stepNumber,
     led |-> Line("greenLEDFd"), lines |-> Lines]

\* What the next invocation remembers of invocation i: whether it was a
\* ButtonTimerEventHandler that sampled a level, that level, and whether its
\* write succeeded.
NoButton == [button |-> FALSE, sample |-> "none", writesOk |-> TRUE]
Summary(i) ==
    IF i.handler = "button" /\ i.outcome = "ok"
    THEN [button |-> TRUE, sample |-> i.sample, writesOk |-> i.writesOk]
    ELSE NoButton

----------------------------------------------------------------------------
(* Pure parts of the handlers *)

Write(h, v) == [h |-> h, v |-> v]

\* GPIO_SetValue(h, v) on pin levels g: a successful call drives the pin the
\* descriptor was opened on; a failed one (result -1) leaves it as it was.
GPIO_SetValue(g, h, v, ok) ==
    IF ok /\ fd[h] >= 0 THEN [g EXCEPT ![PinOf(h)] = v] ELSE g

\* The calls ws made in order, every one with the result ok.
RECURSIVE ApplyWrites(_, _, _)
ApplyWrites(g, ws, ok) ==
    IF ws = <<>> THEN g
    ELSE ApplyWrites(GPIO_SetValue(g, Head(ws).h, Head(ws).v, ok), Tail(ws), ok)

\* Mutant of ButtonOutcome: a released button stops the motor but keeps
\* stepNumber.
ButtonOutcomeNoReset(consumeOk, readOk, newButtonState, turning, step) ==
    IF ~consumeOk THEN
        [outcome |-> "consume_failed", fatal |-> TRUE,
         turning |-> turning, step |-> step, writes |-> <<>>]
    ELSE IF ~readOk THEN
        [outcome |-> "read_failed", fatal |-> TRUE,
         turning |-> turning, step |-> step, writes |-> <<>>]
    ELSE IF newButtonState = GPIO_Value_High THEN
        [outcome |-> "ok", fatal |-> FALSE,
         turning |-> FALSE, step |-> step,
         writes |-> <<Write("greenLEDFd", GPIO_Value_High)>>]
    ELSE
        [outcome |-> "ok", fatal |-> FALSE,
         turning |-> TRUE, step |-> step,
         writes |-> <<Write("greenLEDFd", GPIO_Value_Low)>>]

\* Mutant of ButtonOutcome: a pressed button starts the sequence at phase 0.
ButtonOutcomePressRestarts(consumeOk, readOk, newButtonState, turning, step) ==
    IF ~consumeOk THEN
        [outcome |-> "consume_failed", fatal |-> TRUE,
         turning |-> turning, step |-> step, writes |-> <<>>]
    ELSE IF ~readOk THEN
        [outcome |-> "read_failed", fatal |-> TRUE,
         turning |-> turning, step |-> step, writes |-> <<>>]
    ELSE IF newButtonState = GPIO_Value_High THEN
        [outcome |-> "ok", fatal |-> FALSE,
         turning |-> FALSE, step |-> 0,
         writes |-> <<Write("greenLEDFd", GPIO_Value_High)>>]
    ELSE
        [outcome |-> "ok", fatal |-> FALSE,
         turning |-> TRUE, step |-> 0,
         writes |-> <<Write("greenLEDFd", GPIO_Value_Low)>>]

\* Mutant of ButtonOutcome: a released button also writes IN1 high.
ButtonOutcomeStopsCoil(consumeOk, readOk, newButtonState, turning, step) ==
    IF ~consumeOk THEN
        [outcome |-> "consume_failed", fatal |-> TRUE,
         turning |-> turning, step |-> step, writes |-> <<>>]
    ELSE IF ~readOk THEN
        [outcome |-> "read_failed", fatal |-> TRUE,
         turning |-> turning, step |-> step, writes |-> <<>>]
    ELSE IF newButtonState = GPIO_Value_High THEN
        [outcome |-> "ok", fatal |-> FALSE,
         turning |-> FALSE, step |-> 0,
         writes |-> <<Write("greenLEDFd", GPIO_Value_High),
                      Write("IN1", GPIO_Value_High)>>]
    ELSE
        [outcome |-> "ok", fatal |-> FALSE,
         turning |-> TRUE, step |-> step,
         writes |-> <<Write("greenLEDFd", GPIO_Value_Low)>>]

\* Mutant of ButtonOutcome: the result of GPIO_GetValue is tested after the
\* level is acted on, so a failed read is handled as a released button.
ButtonOutcomeLateCheck(consumeOk, readOk, newButtonState, turning, step) ==
    IF ~consumeOk THEN
        [outcome |-> "consume_failed", fatal |-> TRUE,
         turning |-> turning, step |-> step, writes |-> <<>>]
    ELSE IF ~readOk THEN
        [outcome |-> "read_failed", fatal |-> TRUE,
         turning |-> FALSE, step |-> 0,
         writes |-> <<Write("greenLEDFd", GPIO_Value_High)>>]
    ELSE IF newButtonState = GPIO_Value_High THEN
        [outcome |-> "ok", fatal |-> FALSE,
         turning |-> FALSE, step |-> 0,
         writes |-> <<Write("greenLEDFd", GPIO_Value_High)>>]
    ELSE
        [outcome |-> "ok", fatal |-> FALSE,
         turning |-> TRUE, step |-> step,
         writes |-> <<Write("greenLEDFd", GPIO_Value_Low)>>]

\* main.c:56-82.  What one ButtonTimerEventHandler invocation does, given the
\* results of ConsumeTimerFdEvent and GPIO_GetValue and the sampled level:
\* whether it sets terminationRequired, the new isMotorTurning and stepNumber,
\* and the GPIO_SetValue calls it makes.
ButtonOutcome(consumeOk, readOk, newButtonState, turning, step) ==
    IF ~consumeOk THEN
        [outcome |-> "consume_failed", fatal |-> TRUE,
         turning |-> turning, step |-> step, writes |-> <<>>]
    ELSE IF ~readOk THEN
        [outcome |-> "read_failed", fatal |-> TRUE,
         turning |-> turning, step |-> step, writes |-> <<>>]
    ELSE IF newButtonState = GPIO_Value_High THEN
        [outcome |-> "ok", fatal |-> FALSE,
         turning |-> FALSE, step |-> 0,
         writes |-> <<Write("greenLEDFd", GPIO_Value_High)>>]
    ELSE
        [outcome |-> "ok", fatal |-> FALSE,
         turning |-> TRUE, step |-> step,
         writes |-> <<Write("greenLEDFd", GPIO_Value_Low)>>]

\* Mutant of SwitchWrites: case 2 drives IN4 instead of IN3.
SwitchWritesWrongCoil(step) ==
    IF step = 2
    THEN <<Write("IN1", GPIO_Value_High), Write("IN2", GPIO_Value_High),
           Write("IN3", GPIO_Value_High), Write("IN4", GPIO_Value_Low)>>
    ELSE <<Write("IN1", IF step = 0 THEN GPIO_Value_Low ELSE GPIO_Value_High),
           Write("IN2", IF step = 1 THEN GPIO_Value_Low ELSE GPIO_Value_High),
           Write("IN3", GPIO_Value_High),
           Write("IN4", IF step = 3 THEN GPIO_Value_Low ELSE GPIO_Value_High)>>

\* Mutant of SwitchWrites: each case makes its calls in the order IN4..IN1.
SwitchWritesReversed(step) ==
    IF step \notin 0..3 THEN <<>>
    ELSE <<Write("IN4", IF step = 3 THEN GPIO_Value_Low ELSE GPIO_Value_High),
           Write("IN3", IF step = 2 THEN GPIO_Value_Low ELSE GPIO_Value_High),
           Write("IN2", IF step = 1 THEN GPIO_Value_Low ELSE GPIO_Value_High),
           Write("IN1", IF step = 0 THEN GPIO_Value_Low ELSE GPIO_Value_High)>>

\* main.c:102-135.  The GPIO_SetValue calls of the switch on stepNumber, in the
\* order they are made; the default branch makes none.
SwitchWrites(step) ==
    CASE step = 0 ->
            <<Write("IN1", GPIO_Value_Low), Write("IN2", GPIO_Value_High),
              Write("IN3", GPIO_Value_High), Write("IN4", GPIO_Value_High)>>
      [] step = 1 ->
            <<Write("IN1", GPIO_Value_High), Write("IN2", GPIO_Value_Low),
              Write("IN3", GPIO_Value_High), Write("IN4", GPIO_Value_High)>>
      [] step = 2 ->
            <<Write("IN1", GPIO_Value_High), Write("IN2", GPIO_Value_High),
              Write("IN3", GPIO_Value_Low), Write("IN4", GPIO_Value_High)>>
      [] step = 3 ->
            <<Write("IN1", GPIO_Value_High), Write("IN2", GPIO_Value_High),
              Write("IN3", GPIO_Value_High), Write("IN4", GPIO_Value_Low)>>
      [] OTHER -> <<>>

\* Mutant of IdleWrites: the last line is left as it is.
IdleWritesForgetIN4 ==
    <<Write("IN1", GPIO_Value_High), Write("IN2", GPIO_Value_High),
      Write("IN3", GPIO_Value_High)>>

\* main.c:142-145.  The GPIO_SetValue calls of the branch for a stopped motor.
IdleWrites ==
    <<Write("IN1", GPIO_Value_High), Write("IN2", GPIO_Value_High),
      Write("IN3", GPIO_Value_High), Write("IN4", GPIO_Value_High)>>

\* Mutant of Advance: the wrap compares with 5.
AdvanceWrapLate(step) == IF step + 1 = 5 THEN 0 ELSE step + 1

\* main.c:136-138.  stepNumber++ and the wrap at 4.
Advance(step) == IF step + 1 = 4 THEN 0 ELSE step + 1

\* main.c:94-146.  What one StepperMotorEventHandler invocation does, given the
\* result of ConsumeTimerFdEvent.
StepperPlan(consumeOk, turning, step) ==
    IF ~consumeOk THEN
        [outcome |-> "consume_failed", fatal |-> TRUE,
         writes |-> <<>>, step |-> step]
    ELSE IF turning THEN
        [outcome |-> "ok", fatal |-> FALSE,
         writes |-> SwitchWrites(step), step |-> Advance(step)]
    ELSE
        [outcome |-> "ok", fatal |-> FALSE,
         writes |-> IdleWrites, step |-> step]

\* Mutant of LatchAfter: the flag is assigned the result of the call.
LatchAssigned(latch, fatal) == fatal

\* main.c:58, 68, 96, 266, 272.  terminationRequired after a call that failed
\* (fatal) or not: it is only ever assigned true.
LatchAfter(latch, fatal) == latch \/ fatal

\* Mutant of WhileCondition: the loop does not test the flag.
WhileConditionForever(latch) == TRUE

\* main.c:270.  The condition of the run loop.
WhileCondition(latch) == ~latch

\* main.c:166-239.  The descriptors and pin levels InitPeripheralsAndHandlers
\* leaves when acquisition number firstFail is the first to fail
\* (Len(AcquireOrder) + 1: none fails), and its result.
Position(h) == CHOOSE i \in 1..Len(AcquireOrder) : AcquireOrder[i] = h
\* Mutant of InitFds: the acquisitions after the failed one are made as well.
InitFdsKeepsGoing(firstFail) ==
    [h \in Handles |-> IF Position(h) # firstFail THEN 2 + Position(h) ELSE -1]

InitFds(firstFail) ==
    [h \in Handles |-> IF Position(h) < firstFail THEN 2 + Position(h) ELSE -1]
\* Mutant of InitGpio: the indicator line is opened low (LED on).
InitGpioLedOn(firstFail) ==
    [p \in OutputPins |->
        IF \E h \in OutputHandles : PinOf(h) = p /\ Position(h) < firstFail
        THEN IF p = AVNET_MT3620_SK_USER_LED_GREEN
             THEN GPIO_Value_Low ELSE GPIO_Value_High
        ELSE Unopened]

InitGpio(firstFail) ==
    [p \in OutputPins |->
        IF \E h \in OutputHandles : PinOf(h) = p /\ Position(h) < firstFail
        THEN GPIO_Value_High ELSE Unopened]
InitResult(firstFail) == IF firstFail <= Len(AcquireOrder) THEN -1 ELSE 0

\* main.c:249-259.  The descriptors ClosePeripheralsAndHandlers closes: each
\* CloseFdAndPrintError call closes its descriptor unless it is negative.
IsOpen(h) == fd[h] >= 0
ClosedFds == SelectSeq(CloseOrder, IsOpen)

\* The subsets of S of at most k elements: the close() calls that may fail.
RECURSIVE UpTo(_, _)
UpTo(S, k) ==
    IF k = 0 THEN {{}}
    ELSE LET T == UpTo(S, k - 1) IN T \cup {t \cup {x} : t \in T, x \in S}

\* CloseFdAndPrintError(fd[h], name) of epoll_timerfd_utilities: no close() for
\* a negative descriptor; otherwise one close(), whose failure is logged and
\* nothing else.  The close() calls it adds to those made so far, cs.
CloseFdAndPrintError(cs, h, ok) ==
    IF fd[h] >= 0 THEN Append(cs, [h |-> h, ok |-> ok]) ELSE cs

\* main.c:249-259.  The close() calls of ClosePeripheralsAndHandlers from
\* call number k on, when exactly the descriptors in failing fail to close.
RECURSIVE CloseFrom(_, _, _)
CloseFrom(cs, k, failing) ==
    IF k > Len(CloseOrder) THEN cs
    ELSE CloseFrom(CloseFdAndPrintError(cs, CloseOrder[k],
                                        CloseOrder[k] \notin failing),
                   k + 1, failing)

----------------------------------------------------------------------------
(* History of the step ticks made while isMotorTurning is true *)

\* s0: stepNumber before the first tick of the run; n: its ticks so far; obs:
\* the set of active lines after each of them; clean: every GPIO_SetValue of
\* the last tick succeeded; ended: s0 and n of the run that the last release
\* of the button ended, until the button is sampled pressed again; fresh: the
\* run began with isMotorTurning false (at the start or at a release), not in
\* the middle of a turn.
NoRun == [s0 |-> -1, n |-> 0]
NewRun(step) ==
    [s0 |-> step, n |-> 0, obs |-> <<>>, clean |-> TRUE, ended |-> NoRun,
     fresh |-> TRUE]

\* The history after a ButtonTimerEventHandler with outcome o.
RunAfterButton(o, turning) ==
    IF o.outcome # "ok" THEN run
    ELSE IF o.turning THEN [run EXCEPT !.ended = NoRun]
    ELSE [NewRun(o.step) EXCEPT
              !.ended = IF turning THEN [s0 |-> run.s0, n |-> run.n]
                        ELSE run.ended]

\* The run a step tick with isMotorTurning true belongs to: the current one,
\* or a new one from the current stepNumber once MaxRun ticks are recorded or
\* a GPIO_SetValue of the last tick failed.
RunAtTick ==
    IF run.n >= MaxRun \/ ~run.clean
    THEN [NewRun(stepNumber) EXCEPT !.fresh = FALSE] ELSE run

\* The run after that tick: one more tick, and the lines active after it.
RunAfterTick(r, ls, ok) ==
    [r EXCEPT !.n = @ + 1, !.obs = Append(@, Active(ls)), !.clean = ok]

\* The history before the first handler invocation.  late: the invocations
\* begun with terminationRequired already set, up to this one (counted to 2);
\* ledOk: the last GPIO_SetValue on the indicator line succeeded.
NoInvocation ==
    [handler |-> "none", outcome |-> "none", sample |-> "none",
     entry |-> [turning |-> FALSE, step |-> 0, led |-> Unopened,
                lines |-> [h \in DriverLines |-> Unopened]],
     writes |-> <<>>, writesOk |-> TRUE, prev |-> NoButton,
     late |-> 0, ledOk |-> TRUE]

\* The count of late invocations when one more handler begins.
LateAtEntry ==
    IF ~terminationRequired THEN 0
    ELSE IF inv.late >= 2 THEN 2 ELSE inv.late + 1

----------------------------------------------------------------------------
(* Initial state: the statics of main.c:23-40 before main() runs *)

Init ==
    /\ pc = "start"
    /\ terminationRequired = FALSE
    /\ isMotorTurning = FALSE
    /\ stepNumber = 0
    /\ fd = [h \in Handles |-> -1]
    /\ gpio = [p \in OutputPins |-> Unopened]
    /\ stepperPos = 0
    /\ closed = <<>>
    /\ exitStatus = -1
    /\ inv = NoInvocation
    /\ run = NewRun(0)

----------------------------------------------------------------------------
(* Actions *)

\* main.c:45-49.  SIGTERM, at any point once the handler is installed.
TerminationHandler ==
    /\ pc \in {"init", "loop", "wait", "stepper", "close", "return"}
    /\ terminationRequired' = TRUE
    /\ UNCHANGED <<pc, isMotorTurning, stepNumber, fd, gpio, stepperPos,
                   closed, exitStatus, inv, run>>

\* main.c:161-164.  InitPeripheralsAndHandlers installs TerminationHandler.
InstallHandler ==
    /\ pc = "start"
    /\ pc' = "init"
    /\ UNCHANGED <<terminationRequired, isMotorTurning, stepNumber, fd, gpio,
                   stepperPos, closed, exitStatus, inv, run>>

\* main.c:166-239, 265-267.  The acquisitions of InitPeripheralsAndHandlers
\* and the test of its result.
MainInit ==
    /\ pc = "init"
    /\ \E firstFail \in 1..(Len(AcquireOrder) + 1) :
        /\ fd' = InitFds(firstFail)
        /\ gpio' = InitGpio(firstFail)
        /\ terminationRequired' =
               LatchAfter(terminationRequired, InitResult(firstFail) # 0)
    /\ pc' = "loop"
    /\ UNCHANGED <<isMotorTurning, stepNumber, stepperPos, closed, exitStatus,
                   inv, run>>

\* main.c:270.  The loop condition.  The histories of the run loop end when
\* the loop is left.
LoopTest ==
    /\ pc = "loop"
    /\ IF WhileCondition(terminationRequired)
       THEN pc' = "wait" /\ UNCHANGED <<inv, run>>
       ELSE pc' = "close" /\ inv' = NoInvocation /\ run' = NewRun(stepNumber)
    /\ UNCHANGED <<terminationRequired, isMotorTurning, stepNumber, fd, gpio,
                   stepperPos, closed, exitStatus>>

\* main.c:271-273.  WaitForEventAndCallHandler fails.
WaitFailed ==
    /\ pc = "wait"
    /\ terminationRequired' = LatchAfter(terminationRequired, TRUE)
    /\ pc' = "loop"
    /\ UNCHANGED <<isMotorTurning, stepNumber, fd, gpio, stepperPos, closed,
                   exitStatus, inv, run>>

\* main.c:54-83.  The button timer fires and its handler runs to its return.
ButtonTimerEventHandler ==
    /\ pc = "wait"
    /\ \E consumeOk, readOk, writeOk \in BOOLEAN,
          newButtonState \in {GPIO_Value_High, GPIO_Value_Low} :
        LET o == ButtonOutcome(consumeOk, readOk, newButtonState,
                               isMotorTurning, stepNumber)
            ws == o.writes
        IN  /\ terminationRequired' = LatchAfter(terminationRequired, o.fatal)
            /\ isMotorTurning' = o.turning
            /\ stepNumber' = o.step
            /\ gpio' = ApplyWrites(gpio, ws, writeOk)
            /\ inv' = [handler |-> "button", outcome |-> o.outcome,
                       sample |-> IF o.outcome = "ok" THEN newButtonState
                                  ELSE "none",
                       entry |-> Entry, writes |-> ws,
                       writesOk |-> (Len(ws) = 0 \/ writeOk),
                       prev |-> Summary(inv), late |-> LateAtEntry,
                       ledOk |-> IF \E i \in 1..Len(ws) :
                                       ws[i].h = "greenLEDFd"
                                 THEN writeOk ELSE inv.ledOk]
            /\ run' = RunAfterButton(o, isMotorTurning)
    /\ pc' = "loop"
    /\ UNCHANGED <<fd, stepperPos, closed, exitStatus>>

\* main.c:94-100.  The step timer fires: the handler acknowledges the timer
\* and, unless that fails, chooses its branch.
StepperMotorEventHandler ==
    /\ pc = "wait"
    /\ \E consumeOk \in BOOLEAN :
        LET p == StepperPlan(consumeOk, isMotorTurning, stepNumber)
            begun == [handler |-> "stepper", outcome |-> p.outcome,
                      sample |-> "none", entry |-> Entry, writes |-> <<>>,
                      writesOk |-> TRUE, prev |-> Summary(inv),
                      late |-> LateAtEntry, ledOk |-> inv.ledOk]
        IN  /\ terminationRequired' = LatchAfter(terminationRequired, p.fatal)
            /\ inv' = begun
            /\ IF p.fatal THEN
                   /\ pc' = "loop"
                   /\ UNCHANGED <<stepNumber, run>>
               ELSE IF Len(p.writes) = 0 THEN
                   /\ pc' = "loop"
                   /\ stepNumber' = p.step
                   /\ run' = RunAfterTick(RunAtTick, Lines, TRUE)
               ELSE
                   /\ pc' = "stepper"
                   /\ UNCHANGED stepNumber
                   /\ run' = IF isMotorTurning THEN RunAtTick ELSE run
    /\ stepperPos' = 0
    /\ UNCHANGED <<isMotorTurning, fd, gpio, closed, exitStatus>>

\* main.c:106-145.  The next GPIO_SetValue of the running handler; after the
\* last one, main.c:136-138 and the return.
StepperWrite ==
    /\ pc = "stepper"
    /\ \E ok \in BOOLEAN :
        LET p == StepperPlan(TRUE, isMotorTurning, stepNumber)
            k == stepperPos + 1
            w == p.writes[k]
            g == GPIO_SetValue(gpio, w.h, w.v, ok)
            allOk == inv.writesOk /\ ok
        IN  /\ gpio' = g
            /\ inv' = [inv EXCEPT !.writes = Append(@, w), !.writesOk = allOk]
            /\ IF k = Len(p.writes) THEN
                   /\ pc' = "loop"
                   /\ stepperPos' = 0
                   /\ stepNumber' = p.step
                   /\ run' = IF isMotorTurning
                             THEN RunAfterTick(run,
                                      [h \in DriverLines |-> g[PinOf(h)]],
                                      allOk)
                             ELSE run
               ELSE
                   /\ pc' = "stepper"
                   /\ stepperPos' = k
                   /\ UNCHANGED <<stepNumber, run>>
    /\ UNCHANGED <<terminationRequired, isMotorTurning, fd, closed, exitStatus>>

\* main.c:276.  ClosePeripheralsAndHandlers, with the close() calls that fail.
ClosePeripheralsAndHandlers ==
    /\ pc = "close"
    /\ \E failing \in UpTo({h \in Handles : IsOpen(h)}, MaxCloseFailures) :
        closed' = CloseFrom(<<>>, 1, failing)
    /\ pc' = "return"
    /\ UNCHANGED <<terminationRequired, isMotorTurning, stepNumber, fd, gpio,
                   stepperPos, exitStatus, inv, run>>

\* main.c:277-278.
MainReturn ==
    /\ pc = "return"
    /\ exitStatus' = 0
    /\ pc' = "exit"
    /\ UNCHANGED <<terminationRequired, isMotorTurning, stepNumber, fd, gpio,
                   stepperPos, closed, inv, run>>

Next ==
    \/ TerminationHandler
    \/ InstallHandler
    \/ MainInit
    \/ LoopTest
    \/ WaitFailed
    \/ ButtonTimerEventHandler
    \/ StepperMotorEventHandler
    \/ StepperWrite
    \/ ClosePeripheralsAndHandlers
    \/ MainReturn

Spec == Init /\ [][Next]_vars

----------------------------------------------------------------------------
(* Type correctness *)

TypeOK ==
    /\ pc \in {"start", "init", "loop", "wait", "stepper", "close", "return",
             "exit"}
    /\ terminationRequired \in BOOLEAN
    /\ isMotorTurning \in BOOLEAN
    /\ stepNumber \in Int
    /\ stepperPos \in 0..3
    /\ run.n \in 0..MaxRun

----------------------------------------------------------------------------
(* Properties *)

\* A handler has returned (none is between two of its calls).
AtBoundary == pc # "stepper"

\* The last invocation was a StepperMotorEventHandler that acknowledged its
\* timer and has returned; it found isMotorTurning true, or false.
StepTickDone ==
    AtBoundary /\ inv.handler = "stepper" /\ inv.outcome = "ok"
TurningTickDone == StepTickDone /\ inv.entry.turning
IdleTickDone == StepTickDone /\ ~inv.entry.turning

\* The last invocation was a ButtonTimerEventHandler that sampled level.
ButtonDone(level) ==
    inv.handler = "button" /\ inv.outcome = "ok" /\ inv.sample = level

\* The step table of section 4.2: the line that is active for a stepIndex.
TableLine(k) ==
    CASE k = 0 -> "IN1" [] k = 1 -> "IN2" [] k = 2 -> "IN3" [] k = 3 -> "IN4"

AllInactive == \A h \in DriverLines : Line(h) = GPIO_Value_High

C3_StepNumberInRange ==
    /\ stepNumber \in 0..3
    /\ TurningTickDone /\ inv.entry.step = 3 => stepNumber = 0

\* A tick has advanced stepNumber from 3 to 0.
C3_Witness ==
    TurningTickDone /\ inv.entry.step = 3 /\ stepNumber = 0

\* C4: a ButtonTimerEventHandler that samples the level high (released)
\* returns with stepNumber 0 and isMotorTurning false.
C4_ReleaseResets ==
    ButtonDone(GPIO_Value_High) /\ AtBoundary =>
        stepNumber = 0 /\ ~isMotorTurning

\* A release has reset a turning motor at stepNumber 2.
C4_Witness ==
    /\ ButtonDone(GPIO_Value_High) /\ AtBoundary
    /\ inv.entry.turning /\ inv.entry.step = 2
    /\ stepNumber = 0 /\ ~isMotorTurning

\* Scenario A of section 8: the lines active after eight step ticks that
\* start at stepIndex 0.
ScenarioA ==
    <<{"IN1"}, {"IN2"}, {"IN3"}, {"IN4"}, {"IN1"}, {"IN2"}, {"IN3"}, {"IN4"}>>

\* The first ticks of the current run, which began at stepNumber 0, are
\* followed by the active lines of scenario A; the last tick counts only if
\* lastToo.
FollowsScenarioA(lastToo) ==
    run.s0 = 0 =>
        \A i \in 1..Len(run.obs) :
            i <= Len(ScenarioA) /\ (lastToo \/ i < Len(run.obs)) =>
                run.obs[i] = ScenarioA[i]

InScenarioB == run.ended = [s0 |-> 0, n |-> 2]

SameLevelTwice ==
    /\ inv.handler = "button" /\ inv.outcome = "ok"
    /\ inv.prev.button /\ inv.prev.sample = inv.sample

\* What C7 compares: the state now and the state the second invocation found,
\* which is the state the first one left.
SameAsAfterFirst ==
    /\ isMotorTurning = inv.entry.turning
    /\ stepNumber = inv.entry.step
    /\ Line("greenLEDFd") = inv.entry.led

\* C7 as stated: the second of two such invocations leaves isMotorTurning,
\* stepNumber and the indicator line as the first left them.
C7_AsStated == SameLevelTwice => SameAsAfterFirst

\* What the code does give: the same whenever the GPIO_SetValue of the first
\* invocation succeeded.
C7_Idempotent == SameLevelTwice /\ inv.prev.writesOk => SameAsAfterFirst

\* The GPIO_SetValue calls of the last invocation on the indicator line, and
\* those on the driver lines.
IndicatorWrites == {i \in 1..Len(inv.writes) : inv.writes[i].h = "greenLEDFd"}
DriverWrites == {i \in 1..Len(inv.writes) : inv.writes[i].h \in DriverLines}

\* C8 as stated: every ButtonTimerEventHandler invocation makes exactly one
\* write to the indicator line and none to a driver line.
C8_AsStated ==
    inv.handler = "button" =>
        Cardinality(IndicatorWrites) = 1 /\ DriverWrites = {}

\* C8, amended: an invocation that acknowledges its timer and reads the level
\* makes exactly one write to the indicator line; one that fails at either
\* makes none; neither writes to a driver line.
C8_OneIndicatorWrite ==
    inv.handler = "button" =>
        /\ Cardinality(IndicatorWrites) = (IF inv.outcome = "ok" THEN 1 ELSE 0)
        /\ DriverWrites = {}

\* An invocation sampled the button and made its one write.
C8_Witness ==
    /\ ButtonDone(GPIO_Value_High)
    /\ inv.writes = <<Write("greenLEDFd", GPIO_Value_High)>>

\* The last invocation failed at ConsumeTimerFdEvent or GPIO_GetValue and has
\* just returned.
FatalReturn ==
    pc = "loop" /\ inv.outcome \in {"consume_failed", "read_failed"}

\* C9: a handler whose timer acknowledge or button read fails sets
\* terminationRequired and returns with isMotorTurning, stepNumber, the
\* indicator line and IN1..IN4 as it found them.
C9_FatalLeavesState ==
    FatalReturn =>
        /\ terminationRequired
        /\ Entry = inv.entry

\* A failed button read left a turning motor, phase IN2 energised, as it was.
C9_Witness ==
    /\ FatalReturn /\ inv.handler = "button" /\ inv.outcome = "read_failed"
    /\ isMotorTurning /\ stepNumber = 2 /\ Active(Lines) = {"IN2"}
    /\ Line("greenLEDFd") = GPIO_Value_Low

\* C10 as stated: when a handler has returned and one of its I/O calls failed
\* (the timer acknowledge, the button read or a GPIO_SetValue),
\* terminationRequired is set.
C10_AsStated ==
    AtBoundary /\ (inv.outcome \in {"consume_failed", "read_failed"}
                   \/ ~inv.writesOk) =>
        terminationRequired

----------------------------------------------------------------------------
(* Shutdown: the latch, the run loop and the release of the peripherals *)

\* The steps of main(): everything but the asynchronous signal handler.
MainStep ==
    \/ InstallHandler
    \/ MainInit
    \/ LoopTest
    \/ WaitFailed
    \/ ButtonTimerEventHandler
    \/ StepperMotorEventHandler
    \/ StepperWrite
    \/ ClosePeripheralsAndHandlers
    \/ MainReturn

\* main() keeps running: both timers are periodic (main.c:177-183, 231-237),
\* so a wait always returns, and no other call of main() blocks.
FairSpec == Spec /\ WF_vars(MainStep)

\* main() is in the run loop: at its test, in the wait or in a handler.
InRunLoop == pc \in {"loop", "wait", "stepper"}

\* C11: once terminationRequired is set during the run loop, at most one more
\* handler is dispatched, the loop test that finds it set goes to
\* ClosePeripheralsAndHandlers and not to another wait, and main() does come
\* to ClosePeripheralsAndHandlers.
C11_LatchEndsLoop ==
    /\ [](inv.late <= 1)
    /\ [][pc = "loop" /\ terminationRequired => pc' = "close"]_vars
    /\ (InRunLoop /\ terminationRequired ~> pc = "close")

\* A signal arrived during the wait: one handler ran with the flag set and
\* returned to the loop test.
C11_Witness ==
    /\ pc = "loop" /\ terminationRequired
    /\ inv.late = 1 /\ inv.outcome = "ok"

\* InitPeripheralsAndHandlers returned 0: every descriptor is open.
InitSucceeded == \A h \in Handles : fd[h] >= 0

\* C12: terminationRequired is false at the start, and no step of the program
\* takes it from true back to false.
C12_LatchMonotone ==
    /\ ~terminationRequired
    /\ [][terminationRequired => terminationRequired']_vars

\* The signal arrived during InitPeripheralsAndHandlers, which then succeeded:
\* the flag is still set at the first loop test.
C12_Witness ==
    /\ pc = "loop" /\ terminationRequired
    /\ InitSucceeded /\ inv.handler = "none"

\* main() has run ClosePeripheralsAndHandlers.
CleanupDone == pc \in {"return", "exit"}

\* The number of close() calls made on the descriptor of h.
Attempts(h) == Cardinality({i \in 1..Len(closed) : closed[i].h = h})

\* C13: no close() is made before ClosePeripheralsAndHandlers, and when it
\* has run, every descriptor that was opened has had exactly one close(),
\* whichever path led to the shutdown and whichever close() calls failed.
C13_ReleasedOnce ==
    /\ ~CleanupDone => closed = <<>>
    /\ CleanupDone => \A h \in Handles : IsOpen(h) => Attempts(h) = 1

\* After a run with all nine descriptors open, the first and the fifth
\* close() failed and the other seven were made all the same.
C13_Witness ==
    /\ CleanupDone /\ InitSucceeded
    /\ Len(closed) = 9
    /\ ~closed[1].ok /\ ~closed[5].ok
    /\ \A i \in {2, 3, 4, 6, 7, 8, 9} : closed[i].ok

\* The kinds of peripheral in the order section 4.3 gives for their release:
\* 1 for a GPIO line, 2 for a timer, 3 for the epoll handle.
ReleaseClass(h) ==
    CASE h = "epollFd" -> 3
      [] h \in {"buttonPollTimerFd", "stepperMotorTimerFd"} -> 2
      [] OTHER -> 1

\* C14 as stated: every GPIO line is released before any timer, and both
\* timers before the epoll handle, which is released last.
C14_AsStated ==
    CleanupDone =>
        \A i, j \in 1..Len(closed) :
            i < j => ReleaseClass(closed[i].h) <= ReleaseClass(closed[j].h)

\* The place of a peripheral in the order the releases are made in.
ReleasePlace(h) ==
    CASE h = "epollFd" -> 1
      [] h = "buttonPollTimerFd" -> 2
      [] h = "greenLEDFd" -> 3
      [] h = "button_A_GpioFd" -> 4
      [] h = "stepperMotorTimerFd" -> 5
      [] h = "IN1" -> 6
      [] h = "IN2" -> 7
      [] h = "IN3" -> 8
      [] h = "IN4" -> 9

\* C14: the releases are made in one fixed order that is not the reverse of
\* the acquisitions: the epoll handle first, then the button timer, the
\* indicator line, the button line, the step timer and IN1, IN2, IN3, IN4.
C14_ReleaseOrder ==
    CleanupDone =>
        \A i, j \in 1..Len(closed) :
            i < j => ReleasePlace(closed[i].h) < ReleasePlace(closed[j].h)

\* All nine were released: the epoll handle first and IN4 last.
C14_Witness ==
    /\ CleanupDone /\ Len(closed) = 9
    /\ closed[1].h = "epollFd" /\ closed[2].h = "buttonPollTimerFd"
    /\ closed[9].h = "IN4"

\* InitPeripheralsAndHandlers has returned.
InitDone == pc \notin {"start", "init"}

\* Acquisition number k was the first to fail: those before it are open,
\* it and those after it were not made.
FirstFailed(k) ==
    /\ \A i \in 1..(k - 1) : IsOpen(AcquireOrder[i])
    /\ \A i \in k..Len(AcquireOrder) : fd[AcquireOrder[i]] = -1
    /\ \A i \in k..Len(AcquireOrder) :
           AcquireOrder[i] \in OutputHandles =>
               gpio[PinOf(AcquireOrder[i])] = Unopened

\* C15: when an acquisition of InitPeripheralsAndHandlers fails, none after it
\* is made, terminationRequired is set before the loop test so that no wait
\* begins and no handler runs, and ClosePeripheralsAndHandlers makes one
\* close() for each descriptor that was opened and none for the others.
C15_InitFailure ==
    InitDone /\ ~InitSucceeded =>
        /\ \E k \in 1..Len(AcquireOrder) : FirstFailed(k)
        /\ terminationRequired
        /\ pc \notin {"wait", "stepper"} /\ inv.handler = "none"
        /\ CleanupDone =>
               \A h \in Handles : Attempts(h) = IF IsOpen(h) THEN 1 ELSE 0

\* Opening IN4 failed: the four peripherals before it were released, and
\* nothing else was.
C15_Witness ==
    /\ CleanupDone /\ FirstFailed(5)
    /\ Len(closed) = 4
    /\ {closed[i].h : i \in 1..4} =
           {"epollFd", "button_A_GpioFd", "buttonPollTimerFd", "greenLEDFd"}

\* C16 as stated: the exit status of the process is 0 when initialisation
\* succeeded and the run was ended by a termination request, and is not 0 when
\* initialisation failed.
C16_AsStated ==
    pc = "exit" =>
        /\ InitSucceeded => exitStatus = 0
        /\ ~InitSucceeded => exitStatus # 0

----------------------------------------------------------------------------
(* The driver lines between the writes of a tick *)

\* The number of driver lines that are active (low) now.
NumActive == Cardinality(Active(Lines))

\* A step tick is running or has returned, it found at most one line active
\* and none of the GPIO_SetValue calls it has made so far has failed.
SoundTick ==
    /\ inv.handler = "stepper" /\ inv.outcome = "ok" /\ inv.writesOk
    /\ Cardinality(Active(inv.entry.lines)) <= 1

\* That tick takes the sequence from phase k - 1, whose line it found active,
\* to phase k.
Transition(k) ==
    /\ SoundTick /\ inv.entry.turning /\ inv.entry.step = k
    /\ Active(inv.entry.lines) = {TableLine((k + 3) % 4)}

C17_WrapOverlap ==
    /\ Transition(0) /\ pc = "stepper" /\ stepperPos = 1
    /\ Active(Lines) = {"IN1", "IN4"}

\* Inside a restart at phase 0 after a release and a new press with no tick
\* in between: IN1 has been written low and IN2, left active, is still low.
C17_RestartOverlap ==
    /\ SoundTick /\ pc = "stepper" /\ stepperPos = 1
    /\ run.fresh /\ run.n = 0 /\ inv.entry.step = 0
    /\ Active(inv.entry.lines) = {"IN2"}
    /\ Active(Lines) = {"IN1", "IN2"}

----------------------------------------------------------------------------
(* The pins of the driver inputs *)

\* The pin the header comment of main.c gives for a driver input.
CommentPin(h) ==
    CASE h = "IN1" -> AVNET_MT3620_SK_GPIO31
      [] h = "IN2" -> AVNET_MT3620_SK_GPIO32
      [] h = "IN3" -> AVNET_MT3620_SK_GPIO33
      [] h = "IN4" -> AVNET_MT3620_SK_GPIO34

\* The pins of the driver inputs that are low now.
LowPins == {PinOf(h) : h \in Active(Lines)}

\* C18 as stated: IN1..IN4 are opened on GPIO 31, 32, 33, 34, so that a tick
\* that found isMotorTurning true and stepNumber k, and whose writes succeed,
\* leaves GPIO 31 + k low and the other three pins high.
C18_AsStated ==
    TurningTickDone /\ inv.writesOk =>
        LowPins = {CommentPin(TableLine(inv.entry.step))}

----------------------------------------------------------------------------
(* The phase at which a turn starts, and the indicator *)

\* The last invocation was the first step tick with isMotorTurning true since
\* isMotorTurning was last false.
FirstTickOfTurn == TurningTickDone /\ run.fresh /\ run.n = 1

LedOn == Line("greenLEDFd") = GPIO_Value_Low

\* C20: after a successful initialisation and until the loop is left, between
\* handlers the LED is on exactly when isMotorTurning is true, provided the
\* last GPIO_SetValue on the indicator line succeeded; and a step tick leaves
\* isMotorTurning and the indicator line as it found them.
C20_IndicatorTracksTurning ==
    /\ InitSucceeded /\ pc \in {"loop", "wait"} /\ inv.ledOk =>
           (LedOn <=> isMotorTurning)
    /\ inv.handler = "stepper" =>
           /\ isMotorTurning = inv.entry.turning
           /\ Line("greenLEDFd") = inv.entry.led

\* A press lit the LED and two step ticks have run since: the LED is still
\* on and the motor still turning.
C20_Witness ==
    /\ pc = "loop" /\ TurningTickDone /\ inv.ledOk
    /\ run.n = 2 /\ isMotorTurning /\ LedOn

====
